---- MODULE Spec2Model ----
(***************************************************************************)
(* A model of redis_luamodules.py: LuaFunction (argument-count contract),  *)
(* LuaModule (import list, compilation, lazy script registration, call     *)
(* dispatch through a direct client or a pipeline).                        *)
(*                                                                         *)
(* Python's None and optional values are sets: None is {}, a present value *)
(* x is {x}.  Modules are the numbers 1..NumModules: identity is the       *)
(* number, never the name, and two modules may share a name.               *)
(***************************************************************************)
EXTENDS Integers, Sequences, FiniteSets, TLC

\* ------------------------------------------------------------------ bounds
NumModules == 3
\* longest parameter list of a LuaFunction
MaxParams == 2
\* most positional arguments passed to a call
MaxArgs == 2
\* most import entries added to all modules together (self entries not counted)
MaxEdges == 2
\* most elements of the sequence handed to one _import_ call
MaxImportItems == 2
\* most commands queued on the pipeline
MaxQueue == 2
\* most import entries of an import graph drawn whole (self entries not counted)
MaxGraphEdges == 3
\* threads calling concurrently
NumThreads == 2

Modules == 1..NumModules

None == {}
Some(x) == {x}
The(o) == CHOOSE x \in o : TRUE

ParamNames == <<"a", "b", "c", "d", "e", "f">>
ArgNames(k) == SubSeq(ParamNames, 1, k)

\* --------------------------------------------------------------- LuaFunction

LuaFunction(arg_names, code, first_optional_index, varargs) ==
    [code |-> code, arg_names |-> arg_names,
     first_optional_index |-> first_optional_index, varargs |-> varargs]

min(a, b) == IF a < b THEN a ELSE b

\* <<min_args, max_args>>, max_args None for a vararg function
arg_count_range(self) ==
    LET min_args == IF self.first_optional_index = None
                    THEN Len(self.arg_names)
                    ELSE min(The(self.first_optional_index), Len(self.arg_names))
        max_args == IF self.varargs THEN None ELSE Some(Len(self.arg_names))
    IN  <<min_args, max_args>>

arg_count_range_text(self) ==
    LET r == arg_count_range(self) IN
    IF Some(r[1]) = r[2] THEN <<"exactly", r[1]>>
    ELSE IF r[2] = None THEN <<"at least", r[1]>>
    ELSE <<"between", r[1], The(r[2])>>

arg_count_valid_NoUpperBound(self, n) ==
    n >= arg_count_range(self)[1]

arg_count_valid(self, n) ==
    LET r == arg_count_range(self) IN
    IF n < r[1] THEN FALSE
    ELSE IF r[2] # None /\ n > The(r[2]) THEN FALSE
    ELSE TRUE

\* An argspec is [args, varargs, keywords, defaults]: args a sequence of
\* [name, is_string] entries (is_string false for a tuple-unpacking
\* parameter), varargs and keywords an optional name, defaults an optional
\* sequence of booleans (TRUE: the default value is None).
\* The result is None when a TypeError is raised, {the function} otherwise.
from_python_argspec(code, argspec) ==
    IF \E i \in 1..Len(argspec.args) : ~argspec.args[i].is_string THEN None
    ELSE IF argspec.varargs # None /\ The(argspec.varargs) # "arg" THEN None
    ELSE IF argspec.keywords # None THEN None
    ELSE IF argspec.defaults # None
            /\ \E i \in 1..Len(The(argspec.defaults)) : ~The(argspec.defaults)[i]
    THEN None
    ELSE LET arg_names == [i \in 1..Len(argspec.args) |-> argspec.args[i].name]
             varargs == argspec.varargs # None
             first_optional_index ==
                 IF argspec.defaults = None THEN None
                 ELSE Some(Len(arg_names) - Len(The(argspec.defaults)))
         IN  Some(LuaFunction(arg_names, code, first_optional_index, varargs))

\* obj is [kind |-> "LuaFunction", f], [kind |-> "pair", arg_names, lua_code]
\* or [kind |-> "function", doc, argspec]
from_obj(obj) ==
    IF obj.kind = "LuaFunction" THEN Some(obj.f)
    ELSE IF obj.kind = "pair"
    THEN Some(LuaFunction(obj.arg_names, obj.lua_code, None, FALSE))
    ELSE from_python_argspec(obj.doc, obj.argspec)

\* The objects a module definition can hold, within the bounds.
BoolSeqs(k) == UNION {[1..j -> BOOLEAN] : j \in 1..k}

\* getargspec of a Python function: at most as many defaults as parameters,
\* defaults None when there is none
Argspecs ==
    {[args |-> [i \in 1..k |-> [name |-> ParamNames[i], is_string |-> (i # u)]],
      varargs |-> va, keywords |-> kw, defaults |-> d] :
        k \in 0..MaxParams, u \in 0..1,
        va \in {None, Some("arg"), Some("rest")},
        kw \in {None, Some("kwargs")},
        d \in {None} \cup {Some(s) : s \in BoolSeqs(MaxParams)}}

PythonArgspecs ==
    {a \in Argspecs : a.defaults # None => Len(The(a.defaults)) <= Len(a.args)}

DirectFunctions ==
    {LuaFunction(ArgNames(k), "body", foi, va) :
        k \in 0..MaxParams,
        foi \in {None} \cup {Some(i) : i \in (-1)..(MaxParams + 1)},
        va \in BOOLEAN}

FunctionObjects ==
    {[kind |-> "LuaFunction", f |-> f] : f \in DirectFunctions}
    \cup {[kind |-> "pair", arg_names |-> ArgNames(k), lua_code |-> "body"] :
            k \in 0..MaxParams}
    \cup {[kind |-> "function", doc |-> "body", argspec |-> a] : a \in PythonArgspecs}

\* ----------------------------------------------------------------- LuaModule

\* self._name_: modules 1 and 3 are two distinct modules that share a name
_name_ == [m \in Modules |-> IF m % 2 = 1 THEN "A" ELSE "B"]

\* an import name a caller may choose besides the modules' own names
Aliases == {"X"}

VARIABLES
    _functions_,            \* [module -> [function name -> LuaFunction]]
    _redis_,                \* [module -> optional default client]
    _imports_,              \* [module -> sequence of [module, import_as]]
    _compile_called,        \* [module -> BOOLEAN]
    _registered_script,     \* [module -> optional Script]
    register_script_calls,  \* [module -> times register_script was invoked for it]
    command_stack,          \* the pipeline's queued commands
    response_callbacks,     \* commands with _pipeline_response_callback installed
    last,                   \* the last operation and its outcome
    threads,                \* [thread -> where it is in _call_ and its locals]
    dfs,                    \* the run of _all_imports: stack, s, counters, result
    lua                     \* the run of a compiled script: text, position, tables

moduleVars == <<_imports_, _compile_called, _registered_script, register_script_calls>>
setupVars == <<_functions_, _redis_>>
pipeVars == <<command_stack, response_callbacks>>
runVars == <<threads, dfs, lua>>

\* ------------------------------------------------------------ import closure

RECURSIVE _all_imports_recurse(_, _), all_imports_loop(_, _, _)

\* the for loop of _all_imports_recurse from its i-th entry on
all_imports_loop(self, i, s) ==
    IF i > Len(_imports_[self]) THEN s
    ELSE LET module == _imports_[self][i].module
         IN  all_imports_loop(self, i + 1,
                 IF module \notin s THEN _all_imports_recurse(module, s) ELSE s)

_all_imports_recurse(self, s) == all_imports_loop(self, 1, s \cup {self})

_all_imports(self) == _all_imports_recurse(self, {})

\* ------------------------------------------------------------- compilation

lua_argdef(f) == IF f.varargs THEN Append(f.arg_names, "...") ELSE f.arg_names

lua_funcdef(f) == [function |-> lua_argdef(f), body |-> f.code]

GlobalName_NameOnly(n, name) == [n |-> 0, name |-> name]

\* the name '_LuaModule%s__%s' % (n, module._name_)
GlobalName(n, name) == [n |-> n, name |-> name]

\* the do ... end block of one module: the local names, the globals they are
\* bound to, and the assignments <local name>[func_name] = funcdef
_compile_module(self, module_map) ==
    [import_names |-> [i \in 1..Len(_imports_[self]) |-> _imports_[self][i].import_as],
     global_names |-> [i \in 1..Len(_imports_[self]) |->
                          module_map[_imports_[self][i].module]],
     set_functions |-> {[table |-> _name_[self], func_name |-> fn,
                         funcdef |-> lua_funcdef(_functions_[self][fn])] :
                            fn \in DOMAIN _functions_[self]}]

\* the orders in which a set of k modules can be iterated
Orders(S) ==
    {o \in [1..Cardinality(S) -> S] : \A i, j \in DOMAIN o : o[i] = o[j] => i = j}

PositionIn(o, m) == CHOOSE i \in DOMAIN o : o[i] = m

module_map_of(set_order) ==
    [module \in {set_order[i] : i \in DOMAIN set_order} |->
        GlobalName(PositionIn(set_order, module) - 1, _name_[module])]

\* The script _compile_ returns.  set_order is the order in which the set
\* all_imports is iterated (it numbers the modules), dict_order the order in
\* which the dict module_map is iterated (it orders the tables and the blocks).
_compile_(self, set_order, dict_order) ==
    LET module_map == module_map_of(set_order)
    IN  [module_names |-> [i \in DOMAIN dict_order |-> module_map[dict_order[i]]],
         blank_tables |-> Len(dict_order),
         set_modules |-> [i \in DOMAIN dict_order |->
                             _compile_module(dict_order[i], module_map)],
         own_name |-> module_map[self]]

CompileCalledAfter_RootOnly(self) == [_compile_called EXCEPT ![self] = TRUE]

\* _compile_module sets the flag of every module it is called on
CompileCalledAfter(self) ==
    [m \in Modules |-> _compile_called[m] \/ m \in _all_imports(self)]

\* ------------------------------------------------------------------- JSON

\* json.dumps / cjson.encode wrap a value in its text, json.loads /
\* cjson.decode unwrap it; text that is no JSON does not decode
json_dumps(v) == [json |-> v]
json_loads(s) == IF "json" \in DOMAIN s THEN s.json ELSE [error |-> "ValueError"]

LuaNil == [nil |-> TRUE]
PyNone == [none |-> TRUE]

\* What the function bodies of the model return: the last declared parameter
\* when it was passed (nil otherwise), tagged with the function called.
LuaReturn(f, name, nargs) ==
    IF nargs < Len(f.arg_names) \/ nargs = 0 THEN LuaNil
    ELSE [returned_by |-> name, value |-> nargs]

\* the reply of EVALSHA: cjson.encode(f(unpack(cjson.decode(ARGV[2]))) or nil)
EvalSha(f, name, json_args) ==
    LET r == LuaReturn(f, name, json_loads(json_args)) IN
    json_dumps(IF r = LuaNil THEN PyNone ELSE r)

_pipeline_response_callback(result, luamodule) ==
    IF luamodule THEN json_loads(result) ELSE result

\* redis-py's parse_response: the callback installed for the command, if any
ParseResponse(command, reply, luamodule, callbacks) ==
    IF command \in callbacks THEN _pipeline_response_callback(reply, luamodule)
    ELSE reply

\* -------------------------------------------------------------- operations

Outcome(op, self, name, nargs, error, ret, io) ==
    [op |-> op, module |-> self, name |-> name, nargs |-> nargs,
     error |-> error, ret |-> ret, io |-> io]

Raised == [raised |-> TRUE]

\* ------------------------------------------------------------------ _import_

_import_name_used_SkipsSelf(imports, name) ==
    \E i \in 2..Len(imports) : imports[i].import_as = name

_import_name_used(imports, name) ==
    \E i \in 1..Len(imports) : imports[i].import_as = name

\* The argument of _import_ is [form, items]: form "module" (a bare module),
\* "pair" (one (module, alias) tuple) or "list" (a sequence of either); an
\* item is [module, import_as], import_as None for a bare module.
NormalizeImports(imports) == imports.items

RECURSIVE import_loop(_, _, _)
\* the for loop of _import_ from its i-th element on, over the list as it is
\* by then: entries appended before a collision stay appended
import_loop(list, items, i) ==
    IF i > Len(items) THEN [imports |-> list, error |-> "none"]
    ELSE LET module == items[i].module
             import_as == IF items[i].import_as = None THEN _name_[module]
                          ELSE The(items[i].import_as)
         IN  IF _import_name_used(list, import_as)
             THEN [imports |-> list, error |-> "ValueError"]
             ELSE import_loop(Append(list, [module |-> module, import_as |-> import_as]),
                              items, i + 1)

ImportItems ==
    {[module |-> m, import_as |-> a] :
        m \in Modules, a \in {None} \cup {Some(x) : x \in Aliases}}

ImportArguments ==
    {[form |-> "module", items |-> <<it>>] : it \in {x \in ImportItems : x.import_as = None}}
    \cup {[form |-> "pair", items |-> <<it>>] : it \in {x \in ImportItems : x.import_as # None}}
    \cup {[form |-> "list", items |-> its] :
            its \in UNION {[1..k -> ImportItems] : k \in 1..MaxImportItems}}

RECURSIVE EdgesFrom(_, _)
EdgesFrom(imps, m) ==
    IF m > NumModules THEN 0 ELSE (Len(imps[m]) - 1) + EdgesFrom(imps, m + 1)

ImportRefused_WhenRegistered(self) == _registered_script[self] # None

\* `if self._compile_called: raise TypeError`
ImportRefused(self) == _compile_called[self]

Import(self, imports) ==
    IF ImportRefused(self)
    THEN /\ last' = Outcome("_import_", self, "", 0, "TypeError", Raised, {})
         /\ UNCHANGED <<moduleVars, setupVars, pipeVars, runVars>>
    ELSE LET r == import_loop(_imports_[self], NormalizeImports(imports), 1)
             after == [_imports_ EXCEPT ![self] = r.imports]
         IN  /\ EdgesFrom(after, 1) <= MaxEdges
             /\ _imports_' = after
             /\ last' = Outcome("_import_", self, "", 0, r.error,
                                IF r.error = "none" THEN PyNone ELSE Raised, {})
             /\ UNCHANGED <<_compile_called, _registered_script, register_script_calls,
                            setupVars, pipeVars, runVars>>

\* ----------------------------------------------------------------- _compile_

\* MyModule._compile_(): the text is returned to the caller, the flags stay
Compile(self) ==
    /\ _compile_called' = CompileCalledAfter(self)
    /\ last' = Outcome("_compile_", self, "", 0, "none", [script |-> TRUE], {})
    /\ UNCHANGED <<_imports_, _registered_script, register_script_calls,
                   setupVars, pipeVars, runVars>>

\* -------------------------------------------------------------------- _call_

\* `redis or self._redis_`: None is false, a direct client is true, and a
\* pipeline is an object with __len__ (the length of its command stack) in the
\* redis-py releases that define it, so a pipeline with nothing queued is false
\* there and true elsewhere
Truth(redis) ==
    IF redis = None THEN {FALSE}
    ELSE IF The(redis) = "Pipeline" /\ command_stack = <<>> THEN BOOLEAN
    ELSE {TRUE}

\* redis.register_script(text): a Script object holding the text
register_script(text) == [script |-> text]

\* What the text _compile_ returns is assembled from: the root and the import
\* list of every module of its closure.  The call-level specifications
\* identify the text by it; the text itself is _compile_ above.
ScriptSource(self) ==
    [own |-> self, imports |-> [m \in _all_imports(self) |-> _imports_[m]]]

NeedsRegistration_Always(self) == TRUE

\* `if self._registered_script is None`
NeedsRegistration(self) == _registered_script[self] = None

RegisteredAfter(self, text) ==
    IF NeedsRegistration(self)
    THEN [_registered_script EXCEPT ![self] = Some(register_script(text))]
    ELSE _registered_script

\* lines 310-322 of _call_, once the arguments and the client are accepted
Dispatch(self, name, nargs, redis, text) ==
    LET register == NeedsRegistration(self)
        args == json_dumps(nargs)
        reply == EvalSha(_functions_[self][name], name, args)
        reg_io == IF register THEN {"register_script"} ELSE {}
    IN  /\ _registered_script' = RegisteredAfter(self, text)
        /\ _compile_called' = IF register THEN CompileCalledAfter(self)
                              ELSE _compile_called
        /\ register_script_calls' =
               IF register
               THEN [register_script_calls EXCEPT ![self] = @ + 1]
               ELSE register_script_calls
        /\ IF The(redis) = "Pipeline"
           THEN /\ Len(command_stack) < MaxQueue
                /\ response_callbacks' = response_callbacks \cup {"EVALSHA"}
                /\ command_stack' = Append(command_stack,
                       [command |-> "EVALSHA", luamodule |-> TRUE, reply |-> reply])
                /\ last' = Outcome("_call_", self, name, nargs, "none",
                                   [pipeline |-> TRUE], reg_io \cup {"queue"})
           ELSE /\ last' = Outcome("_call_", self, name, nargs, "none",
                                   json_loads(ParseResponse("EVALSHA", reply, FALSE,
                                                            response_callbacks)),
                                   reg_io \cup {"evalsha"})
                /\ UNCHANGED <<command_stack, response_callbacks>>
        /\ UNCHANGED <<_imports_, setupVars, runVars>>

Call_RegisterFirst(self, name, nargs, redis_kw) ==
    \E truth \in Truth(redis_kw) :
        LET func == _functions_[self][name]
            redis == IF truth THEN redis_kw ELSE _redis_[self]
            text == ScriptSource(self)
            error == IF ~arg_count_valid(func, nargs) THEN "TypeError: args"
                     ELSE "TypeError: no client"
        IN  IF arg_count_valid(func, nargs) /\ redis # None
            THEN Dispatch(self, name, nargs, redis, text)
            ELSE /\ _registered_script' = RegisteredAfter(self, text)
                 /\ _compile_called' = CompileCalledAfter(self)
                 /\ last' = Outcome("_call_", self, name, nargs, error, Raised, {})
                 /\ UNCHANGED <<_imports_, register_script_calls, setupVars, pipeVars,
                                runVars>>

Call(self, name, nargs, redis_kw) ==
    LET func == _functions_[self][name] IN
    IF ~arg_count_valid(func, nargs)
    THEN /\ last' = Outcome("_call_", self, name, nargs, "TypeError: args", Raised, {})
         /\ UNCHANGED <<moduleVars, setupVars, pipeVars, runVars>>
    ELSE \E truth \in Truth(redis_kw) :
         LET redis == IF truth THEN redis_kw ELSE _redis_[self] IN
         IF redis = None
         THEN /\ last' = Outcome("_call_", self, name, nargs, "TypeError: no client",
                                 Raised, {})
              /\ UNCHANGED <<moduleVars, setupVars, pipeVars, runVars>>
         ELSE Dispatch(self, name, nargs, redis, ScriptSource(self))

\* ------------------------------------------------------------------ pipeline

\* a reply that happens to be JSON text, and one that is not
OtherReplies == {json_dumps([returned_by |-> "other", value |-> 123]), [text |-> "OK"]}

\* the caller queues a command of their own on the pipeline
QueueOther(command, reply) ==
    /\ Len(command_stack) < MaxQueue
    /\ command_stack' = Append(command_stack,
           [command |-> command, luamodule |-> FALSE, reply |-> reply])
    /\ last' = Outcome("queue", 0, command, 0, "none", [pipeline |-> TRUE], {"queue"})
    /\ UNCHANGED <<moduleVars, setupVars, response_callbacks, runVars>>

\* pipeline.execute(): one parsed response per queued command, in order
Execute ==
    /\ command_stack # <<>>
    /\ command_stack' = <<>>
    /\ last' = Outcome("execute", 0, "", 0, "none",
           [list |-> [i \in 1..Len(command_stack) |->
               [queued |-> command_stack[i],
                value |-> ParseResponse(command_stack[i].command, command_stack[i].reply,
                                        command_stack[i].luamodule, response_callbacks)]]],
           {"execute"})
    /\ UNCHANGED <<moduleVars, setupVars, response_callbacks, runVars>>

\* ------------------------------------------------------------ specifications

vars == <<_functions_, _redis_, _imports_, _compile_called, _registered_script,
          register_script_calls, command_stack, response_callbacks, last,
          threads, dfs, lua>>

Idle == [idle |-> TRUE]

\* foo(a): exactly one argument; opt(a, b=None): one or two; each module has
\* bodies of its own
BasicFunctions(m) ==
    [fn \in {"foo", "opt"} |->
        IF fn = "foo" THEN LuaFunction(ArgNames(1), <<"body of foo in", m>>, None, FALSE)
        ELSE LuaFunction(ArgNames(2), <<"body of opt in", m>>, Some(1), FALSE)]

\* LuaModule.__new__: the state of freshly constructed modules
Constructed(functions, redis) ==
    /\ _functions_ = functions
    /\ _redis_ = redis
    /\ _imports_ = [m \in Modules |-> <<[module |-> m, import_as |-> _name_[m]]>>]
    /\ _compile_called = [m \in Modules |-> FALSE]
    /\ _registered_script = [m \in Modules |-> None]
    /\ register_script_calls = [m \in Modules |-> 0]
    /\ command_stack = <<>>
    /\ response_callbacks = {}
    /\ last = Outcome("init", 0, "", 0, "none", PyNone, {})
    /\ threads = Idle
    /\ dfs = Idle
    /\ lua = Idle

\* Modules and their import lists, called through direct clients; module 2 was
\* created without a default client.
Init ==
    Constructed([m \in Modules |-> BasicFunctions(m)],
                [m \in Modules |-> IF m = 2 THEN None ELSE Some("Redis")])

DoImport == \E self \in Modules, imports \in ImportArguments : Import(self, imports)

DoCompile == \E self \in Modules : Compile(self)

DoCall ==
    \E self \in Modules, nargs \in 0..MaxArgs, redis_kw \in {None, Some("Redis")} :
        \E name \in DOMAIN _functions_[self] : Call(self, name, nargs, redis_kw)

Next == DoImport \/ DoCompile \/ DoCall

Spec == Init /\ [][Next]_vars

\* Calls through direct clients and through the pipeline; module 2 has no
\* default client, and from module 3 on the default client is the pipeline.
InitPipe ==
    Constructed([m \in Modules |-> BasicFunctions(m)],
                [m \in Modules |-> IF m = 1 THEN Some("Redis")
                                   ELSE IF m = 2 THEN None ELSE Some("Pipeline")])

Clients == {None, Some("Redis"), Some("Pipeline")}

DoCallAny ==
    \E self \in Modules, nargs \in 0..MaxArgs, redis_kw \in Clients :
        \E name \in DOMAIN _functions_[self] : Call(self, name, nargs, redis_kw)

DoQueueOther ==
    \E command \in {"EVALSHA", "GET"}, reply \in OtherReplies : QueueOther(command, reply)

NextPipe == DoCallAny \/ DoQueueOther \/ Execute

SpecPipe == InitPipe /\ [][NextPipe]_vars

\* Modules whose one function is any LuaFunction that from_obj accepts.
InitArgs ==
    \E obj \in FunctionObjects :
        /\ from_obj(obj) # None
        /\ Constructed([m \in Modules |-> [fn \in {"foo"} |-> The(from_obj(obj))]],
                       [m \in Modules |-> IF m = 2 THEN None ELSE Some("Redis")])

DoCallArgs ==
    \E self \in Modules, nargs \in 0..(MaxParams + 1), redis_kw \in {None, Some("Redis")} :
        Call(self, "foo", nargs, redis_kw)

NextArgs == DoCallArgs

SpecArgs == InitArgs /\ [][NextArgs]_vars

\* ---------------------------------------------------------- import graphs

\* an entry as _import_ appends it: a module under its own name or under an
\* alias
GraphEntries ==
    {[module |-> t, import_as |-> a] :
        t \in Modules, a \in {_name_[m] : m \in Modules} \cup Aliases}

RECURSIVE ImportListsFrom(_, _)
\* the lists _import_ can build from list l with at most k more entries
ImportListsFrom(l, k) ==
    {l} \cup
    IF k = 0 THEN {}
    ELSE UNION {ImportListsFrom(Append(l, e), k - 1) :
                   e \in {x \in GraphEntries : ~_import_name_used(l, x.import_as)}}

\* the import lists of module m: the self entry first, names distinct
ImportLists(m) ==
    ImportListsFrom(<<[module |-> m, import_as |-> _name_[m]]>>, MaxGraphEdges)

RECURSIVE ImportGraphsOver(_, _)
\* the import lists of the modules of S, with at most k imported entries in all
ImportGraphsOver(S, k) ==
    IF S = {} THEN {<<>>}
    ELSE LET m == CHOOSE x \in S : \A y \in S : x <= y
         IN  UNION {{<<l>> \o g : g \in ImportGraphsOver(S \ {m}, k - (Len(l) - 1))} :
                       l \in {x \in ImportLists(m) : Len(x) - 1 <= k}}

ImportGraphs == ImportGraphsOver(Modules, MaxGraphEdges)

InitGraph ==
    /\ _imports_ \in ImportGraphs
    /\ _functions_ = [m \in Modules |-> BasicFunctions(m)]
    /\ _redis_ = [m \in Modules |-> Some("Redis")]
    /\ _compile_called = [m \in Modules |-> FALSE]
    /\ _registered_script = [m \in Modules |-> None]
    /\ register_script_calls = [m \in Modules |-> 0]
    /\ command_stack = <<>>
    /\ response_callbacks = {}
    /\ last = Outcome("init", 0, "", 0, "none", PyNone, {})
    /\ threads = Idle
    /\ dfs = Idle
    /\ lua = Idle

\* ------------------------------------------------- _all_imports, step by step

DFSMark_Nothing(self, s) == s

\* s.add(self)
DFSMark(self, s) == s \cup {self}

\* a call of module._all_imports_recurse(s): a new frame at the first entry
Recurse(d, module) ==
    [d EXCEPT !.stack = Append(@, [self |-> module, i |-> 1]),
              !.s = DFSMark(module, @),
              !.recursed[module] = @ + 1]

\* root._all_imports()
AllImportsCall(root) ==
    /\ dfs = Idle
    /\ dfs' = Recurse([root |-> root, stack |-> <<>>, s |-> {},
                       recursed |-> [m \in Modules |-> 0],
                       steps |-> 0, result |-> None], root)
    /\ UNCHANGED <<moduleVars, setupVars, pipeVars, last, threads, lua>>

\* one turn of the for loop in the innermost frame, or its return
AllImportsStep ==
    /\ dfs # Idle
    /\ dfs.result = None
    /\ LET depth == Len(dfs.stack)
           top == dfs.stack[depth]
           counted == [dfs EXCEPT !.steps = @ + 1]
       IN  IF top.i > Len(_imports_[top.self])
           THEN dfs' = [counted EXCEPT
                           !.stack = SubSeq(@, 1, depth - 1),
                           !.result = IF depth = 1 THEN Some(dfs.s) ELSE None]
           ELSE LET module == _imports_[top.self][top.i].module
                    advanced == [counted EXCEPT !.stack[depth].i = @ + 1]
                IN  IF module \notin dfs.s
                    THEN /\ depth <= NumModules
                         /\ dfs' = Recurse(advanced, module)
                    ELSE dfs' = advanced
    /\ UNCHANGED <<moduleVars, setupVars, pipeVars, last, threads, lua>>

NextDFS == (\E root \in Modules : AllImportsCall(root)) \/ AllImportsStep

SpecDFS == InitGraph /\ [][NextDFS]_vars

\* ------------------------------------------------ the script, run by the store

\* Table 0 is nil.  `local n1, ..., nk = {}, ..., {}`: k new empty tables, each
\* name bound to its own (a name written twice is bound to the later one).
LuaLocals(names) ==
    [g \in {names[i] : i \in DOMAIN names} |->
        CHOOSE i \in DOMAIN names :
            names[i] = g /\ \A j \in DOMAIN names : names[j] = g => j <= i]

LookUp(scope, g) == IF g \in DOMAIN scope THEN scope[g] ELSE 0

\* the script is compiled (by _compile_) and handed to the store
StartScript(root) ==
    /\ lua = Idle
    /\ \E set_order \in Orders(_all_imports(root)) :
       \E dict_order \in Orders(_all_imports(root)) :
           lua' = [root |-> root, set_order |-> set_order,
                   script |-> _compile_(root, set_order, dict_order),
                   pc |-> 0, scope |-> <<>>, tables |-> <<>>,
                   error |-> FALSE, called |-> None]
    /\ _compile_called' = CompileCalledAfter(root)
    /\ UNCHANGED <<_imports_, _registered_script, register_script_calls,
                   setupVars, pipeVars, last, threads, dfs>>

\* local {module_names} = {blank_tables}
LuaDeclareTables ==
    /\ lua # Idle /\ lua.pc = 0
    /\ lua' = [lua EXCEPT !.pc = 1,
                          !.scope = LuaLocals(lua.script.module_names),
                          !.tables = [t \in 1..lua.script.blank_tables |-> <<>>]]
    /\ UNCHANGED <<moduleVars, setupVars, pipeVars, last, threads, dfs>>

\* do local {import_names} = {global_names}  {set_functions} end
\* A function value keeps the locals of its block (env).
LuaModuleBlock ==
    /\ lua # Idle /\ lua.pc \in 1..Len(lua.script.set_modules)
    /\ LET block == lua.script.set_modules[lua.pc]
           bound == LuaLocals(block.import_names)
           env == [a \in DOMAIN bound |-> LookUp(lua.scope, block.global_names[bound[a]])]
           target(asg) == IF asg.table \in DOMAIN env THEN env[asg.table] ELSE 0
           failed == \E asg \in block.set_functions : target(asg) \notin DOMAIN lua.tables
           assigned(t) == {asg \in block.set_functions : target(asg) = t}
       IN  lua' = [lua EXCEPT
               !.pc = @ + 1,
               !.error = @ \/ failed,
               !.tables = [t \in DOMAIN lua.tables |->
                   [fn \in DOMAIN lua.tables[t] \cup {asg.func_name : asg \in assigned(t)} |->
                       IF \E asg \in assigned(t) : asg.func_name = fn
                       THEN [funcdef |-> (CHOOSE asg \in assigned(t) :
                                              asg.func_name = fn).funcdef,
                             env |-> env]
                       ELSE lua.tables[t][fn]]]]
    /\ UNCHANGED <<moduleVars, setupVars, pipeVars, last, threads, dfs>>

\* return cjson.encode({own_name}[ARGV[1]](unpack(cjson.decode(ARGV[2]))) or nil)
LuaDispatch ==
    /\ lua # Idle /\ lua.pc = Len(lua.script.set_modules) + 1
    /\ \E name \in DOMAIN _functions_[lua.root] :
        LET t == LookUp(lua.scope, lua.script.own_name) IN
        lua' = [lua EXCEPT
            !.pc = @ + 1,
            !.called = IF t \in DOMAIN lua.tables /\ name \in DOMAIN lua.tables[t]
                       THEN Some(lua.tables[t][name]) ELSE None]
    /\ UNCHANGED <<moduleVars, setupVars, pipeVars, last, threads, dfs>>

NextCompile ==
    \/ \E root \in Modules : StartScript(root)
    \/ LuaDeclareTables
    \/ LuaModuleBlock
    \/ LuaDispatch

SpecCompile == InitGraph /\ [][NextCompile]_vars

\* -------------------------------------------------------- concurrent _call_

Threads == 1..NumThreads

NotCalling == [pc |-> "idle", self |-> 0, name |-> "", nargs |-> 0]

InitThreads ==
    /\ _functions_ = [m \in Modules |-> BasicFunctions(m)]
    /\ _redis_ = [m \in Modules |-> Some("Redis")]
    /\ _imports_ = [m \in Modules |-> <<[module |-> m, import_as |-> _name_[m]]>>]
    /\ _compile_called = [m \in Modules |-> FALSE]
    /\ _registered_script = [m \in Modules |-> None]
    /\ register_script_calls = [m \in Modules |-> 0]
    /\ command_stack = <<>>
    /\ response_callbacks = {}
    /\ last = Outcome("init", 0, "", 0, "none", PyNone, {})
    /\ threads = [t \in Threads |-> NotCalling]
    /\ dfs = Idle
    /\ lua = Idle

\* lines 301-309: a call with a valid argument count on the default client
ThreadCall(t, self, name, nargs) ==
    /\ threads[t].pc = "idle"
    /\ arg_count_valid(_functions_[self][name], nargs)
    /\ _redis_[self] # None
    /\ threads' = [threads EXCEPT ![t] =
           [pc |-> "check", self |-> self, name |-> name, nargs |-> nargs]]
    /\ UNCHANGED <<moduleVars, setupVars, pipeVars, last, dfs, lua>>

\* line 310: the test `self._registered_script is None`
ThreadCheck(t) ==
    /\ threads[t].pc = "check"
    /\ threads' = [threads EXCEPT ![t].pc =
           IF NeedsRegistration(threads[t].self) THEN "register" ELSE "evaluate"]
    /\ UNCHANGED <<moduleVars, setupVars, pipeVars, last, dfs, lua>>

\* line 311: _compile_(), register_script(...) and the assignment of the handle
ThreadRegister(t) ==
    /\ threads[t].pc = "register"
    /\ LET self == threads[t].self IN
       /\ _compile_called' = CompileCalledAfter(self)
       /\ register_script_calls' = [register_script_calls EXCEPT ![self] = @ + 1]
       /\ _registered_script' = [_registered_script EXCEPT
              ![self] = Some(register_script(ScriptSource(self)))]
    /\ threads' = [threads EXCEPT ![t].pc = "evaluate"]
    /\ UNCHANGED <<_imports_, setupVars, pipeVars, last, dfs, lua>>

\* lines 312-322 on a direct client
ThreadEvaluate(t) ==
    /\ threads[t].pc = "evaluate"
    /\ LET c == threads[t]
           reply == EvalSha(_functions_[c.self][c.name], c.name, json_dumps(c.nargs))
       IN  last' = Outcome("_call_", c.self, c.name, c.nargs, "none",
                           json_loads(ParseResponse("EVALSHA", reply, FALSE,
                                                    response_callbacks)),
                           {"evalsha"})
    /\ threads' = [threads EXCEPT ![t] = NotCalling]
    /\ UNCHANGED <<moduleVars, setupVars, pipeVars, dfs, lua>>

NextThreads ==
    \E t \in Threads :
        \/ \E self \in Modules, nargs \in 0..MaxArgs :
               \E name \in DOMAIN _functions_[self] : ThreadCall(t, self, name, nargs)
        \/ ThreadCheck(t)
        \/ ThreadRegister(t)
        \/ ThreadEvaluate(t)

SpecThreads == InitThreads /\ [][NextThreads]_vars

\* ------------------------------------------------------------------ claims

ValidIndex(f) ==
    \/ f.first_optional_index = None
    \/ The(f.first_optional_index) \in 0..Len(f.arg_names)

StatedMin(f) ==
    IF f.first_optional_index = None THEN Len(f.arg_names)
    ELSE The(f.first_optional_index)

InStatedRange(f, n) == StatedMin(f) <= n /\ (f.varargs \/ n <= Len(f.arg_names))

\* C1: for every LuaFunction whose first_optional_index is None or within
\* 0..len(arg_names), arg_count_valid(n) is true exactly when min <= n and
\* (varargs or n <= len(arg_names)), min being first_optional_index if set and
\* len(arg_names) otherwise; and _call_ raises the argument-count TypeError
\* for exactly the other n.
ArgCountContract ==
    \A m \in Modules : \A fn \in DOMAIN _functions_[m] :
        LET f == _functions_[m][fn] IN
        ValidIndex(f) =>
            /\ \A n \in 0..(MaxParams + 1) : arg_count_valid(f, n) <=> InStatedRange(f, n)
            /\ (last.op = "_call_" /\ last.module = m /\ last.name = fn)
                   => (last.error = "TypeError: args" <=> ~InStatedRange(f, last.nargs))

\* a function with optional parameters and no varargs was called with too many
\* arguments and the call was refused
ArgCountContractWitness ==
    /\ last.op = "_call_" /\ last.error = "TypeError: args"
    /\ LET f == _functions_[last.module][last.name] IN
           /\ f.first_optional_index # None /\ ValidIndex(f) /\ ~f.varargs
           /\ last.nargs > Len(f.arg_names)

\* C2: register_script is invoked at most once per module, by the first call
\* that passes the argument-count and client checks while the module has no
\* handle; later calls reuse the handle, which is never unset or replaced.
RegisteredAtMostOnce ==
    [][/\ \A m \in Modules :
            /\ register_script_calls'[m] <= 1
            /\ (register_script_calls'[m] = 1) <=> (_registered_script'[m] # None)
            /\ _registered_script[m] # None
                   => _registered_script'[m] = _registered_script[m]
       /\ last'.op = "_call_"
            => (("register_script" \in last'.io)
                   <=> (last'.error = "none" /\ _registered_script[last'.module] = None))
      ]_vars

\* a successful call on a registered module that did not register again
RegisteredAtMostOnceWitness ==
    /\ last.op = "_call_" /\ last.error = "none"
    /\ "register_script" \notin last.io
    /\ register_script_calls[last.module] = 1

ImportNames(m) == {_imports_[m][i].import_as : i \in 1..Len(_imports_[m])}

ImportNameOf(it) ==
    IF it.import_as = None THEN _name_[it.module] ELSE The(it.import_as)

OneImport(it) ==
    [form |-> IF it.import_as = None THEN "module" ELSE "pair", items |-> <<it>>]

\* C3: in every state the import names of a module are pairwise distinct and
\* its first entry is the module itself under its own name; on a module not
\* yet compiled, _import_ of a pair raises ValueError and appends nothing when
\* the import name is already in the list (the self entry's included, and the
\* name of a bare module that shares it), and appends the pair otherwise.
ImportNamesDistinct ==
    \A m \in Modules :
        /\ Len(_imports_[m]) >= 1
        /\ _imports_[m][1] = [module |-> m, import_as |-> _name_[m]]
        /\ \A i, j \in 1..Len(_imports_[m]) :
               _imports_[m][i].import_as = _imports_[m][j].import_as => i = j
        /\ ~_compile_called[m] =>
               \A it \in ImportItems :
                   IF ImportNameOf(it) \in ImportNames(m)
                   THEN /\ ENABLED (Import(m, OneImport(it))
                                    /\ last'.error = "ValueError"
                                    /\ _imports_' = _imports_)
                        /\ ~ENABLED (Import(m, OneImport(it)) /\ last'.error # "ValueError")
                   ELSE /\ ~ENABLED (Import(m, OneImport(it)) /\ last'.error # "none")
                        /\ EdgesFrom(_imports_, 1) < MaxEdges =>
                               ENABLED (Import(m, OneImport(it))
                                        /\ _imports_'[m] = Append(_imports_[m],
                                               [module |-> it.module,
                                                import_as |-> ImportNameOf(it)]))

\* an _import_ was refused for its name on a module that holds one module
\* under two names
ImportNamesDistinctWitness ==
    /\ last.op = "_import_" /\ last.error = "ValueError"
    /\ \E i, j \in 1..Len(_imports_[last.module]) :
           /\ i < j
           /\ _imports_[last.module][i].module = _imports_[last.module][j].module

\* C4: once a module has been compiled, _import_ on it raises and changes
\* neither its import list nor any compiled flag or script handle, and a valid
\* call on the module still succeeds afterwards.
ImportAfterCompileRefused ==
    /\ [][(last'.op = "_import_" /\ _compile_called[last'.module])
             => /\ last'.error = "TypeError"
                /\ UNCHANGED <<_imports_, _compile_called, _registered_script>>]_vars
    /\ []((last.op = "_import_" /\ last.error = "TypeError")
             => ENABLED (Call(last.module, "foo", 1, Some("Redis"))
                         /\ last'.error = "none"))

\* _import_ was refused on a module that holds a script handle
ImportAfterCompileRefusedWitness ==
    /\ last.op = "_import_" /\ last.error = "TypeError"
    /\ _registered_script[last.module] # None

\* C5: a _call_ that raises the argument-count or the missing-client error
\* does nothing on the store or the pipeline and leaves the module as it was,
\* a valid call still succeeds afterwards, and a wrong argument count is
\* reported whatever the client.
FailedCallChangesNothing ==
    /\ [][(last'.op = "_call_" /\ last'.error # "none")
             => /\ last'.io = {}
                /\ UNCHANGED <<moduleVars, pipeVars>>]_vars
    /\ []((last.op = "_call_" /\ last.error # "none")
             => ENABLED (Call(last.module, "foo", 1, Some("Redis"))
                         /\ last'.error = "none"
                         /\ "evalsha" \in last'.io))
    /\ [](\A m \in Modules, n \in 0..MaxArgs, redis_kw \in Clients :
            \A fn \in DOMAIN _functions_[m] :
                ~arg_count_valid(_functions_[m][fn], n)
                    => ~ENABLED (Call(m, fn, n, redis_kw)
                                 /\ last'.error # "TypeError: args"))

\* the missing-client error on a module that has no handle yet
FailedCallChangesNothingWitness ==
    /\ last.op = "_call_" /\ last.error = "TypeError: no client"
    /\ _registered_script[last.module] = None
    /\ command_stack # <<>>

\* C6: a call whose client is a pipeline is queued and returns the pipeline;
\* after execute() the list has one entry per queued command, in order, the
\* entry of a LuaModule call decoded and every other entry as the server
\* replied.
PipelineCallsQueuedAndDecoded ==
    /\ \A m \in Modules, n \in 0..MaxArgs : \A fn \in DOMAIN _functions_[m] :
           arg_count_valid(_functions_[m][fn], n)
               => ~ENABLED (Call(m, fn, n, Some("Pipeline"))
                            /\ ~(/\ last'.error = "none"
                                 /\ last'.ret = [pipeline |-> TRUE]
                                 /\ last'.io \subseteq {"register_script", "queue"}
                                 /\ Len(command_stack') = Len(command_stack) + 1))
    /\ last.op = "execute" =>
           \A i \in 1..Len(last.ret.list) :
               LET e == last.ret.list[i] IN
               e.value = IF e.queued.luamodule THEN json_loads(e.queued.reply)
                         ELSE e.queued.reply

\* C10: every LuaFunction that can be constructed has first_optional_index
\* None or within 0..len(arg_names), so that the reported minimum is never
\* negative and never above the maximum.
FirstOptionalIndexInRange ==
    \A m \in Modules : \A fn \in DOMAIN _functions_[m] :
        LET f == _functions_[m][fn]
            r == arg_count_range(f)
        IN  /\ ValidIndex(f)
            /\ r[1] >= 0
            /\ r[2] # None => r[1] <= The(r[2])

RECURSIVE ReachFrom(_)
\* the modules reachable along import edges from the modules of S, S included
ReachFrom(S) ==
    LET N == S \cup UNION {{_imports_[m][i].module : i \in 1..Len(_imports_[m])} : m \in S}
    IN  IF N = S THEN S ELSE ReachFrom(N)

RECURSIVE LoopTurns(_)
\* the turns of the for loops of the modules of S, a return for each
LoopTurns(S) ==
    IF S = {} THEN 0
    ELSE LET m == CHOOSE x \in S : TRUE
         IN  Len(_imports_[m]) + 1 + LoopTurns(S \ {m})

\* C7: the script has one table per module of the closure under names that
\* differ from module to module, every table exists before a module block
\* runs, and when the call is dispatched every function of every module is in
\* the table of its module with each import name of its block (own name,
\* self aliases, import aliases) bound to the table of the module imported,
\* whatever the orders of numbering and of emission.
OneTablePerModule ==
    lua # Idle =>
        LET closure == _all_imports(lua.root)
            module_map == module_map_of(lua.set_order)
            k == Cardinality(closure)
            table(m) == LookUp(lua.scope, module_map[m])
        IN  /\ closure = ReachFrom({lua.root})
            /\ \A m1, m2 \in closure : module_map[m1] = module_map[m2] => m1 = m2
            /\ Len(lua.script.module_names) = k
            /\ {lua.script.module_names[i] : i \in 1..k} = {module_map[m] : m \in closure}
            /\ lua.script.blank_tables = k
            /\ Len(lua.script.set_modules) = k
            /\ ~lua.error
            /\ lua.pc >= 1 =>
                   /\ DOMAIN lua.tables = 1..k
                   /\ \A m \in closure : table(m) \in 1..k
                   /\ \A m1, m2 \in closure : table(m1) = table(m2) => m1 = m2
            /\ lua.pc > k =>
                   \A m \in closure :
                       /\ DOMAIN lua.tables[table(m)] = DOMAIN _functions_[m]
                       /\ \A fn \in DOMAIN _functions_[m] :
                              LET f == lua.tables[table(m)][fn] IN
                              /\ f.funcdef = lua_funcdef(_functions_[m][fn])
                              /\ DOMAIN f.env = ImportNames(m)
                              /\ \A i \in 1..Len(_imports_[m]) :
                                     f.env[_imports_[m][i].import_as]
                                         = table(_imports_[m][i].module)
            /\ lua.pc > k + 1 =>
                   \E fn \in DOMAIN _functions_[lua.root] :
                       lua.called = Some(lua.tables[table(lua.root)][fn])

\* a call was dispatched in a script of two modules sharing a name, the root
\* imported back by the other module and holding itself under an alias
OneTablePerModuleWitness ==
    /\ lua # Idle
    /\ lua.pc = Len(lua.script.set_modules) + 2
    /\ \E m1, m2 \in _all_imports(lua.root) : m1 # m2 /\ _name_[m1] = _name_[m2]
    /\ \E m \in Modules \ {lua.root} : \E i \in 1..Len(_imports_[m]) :
           _imports_[m][i].module = lua.root
    /\ \E i \in 2..Len(_imports_[lua.root]) : _imports_[lua.root][i].module = lua.root

\* C8: _all_imports terminates (it is never stuck before it returns, within a
\* number of turns fixed by the graph, at a depth of at most one frame per
\* module), recurses into each module at most once, and returns exactly the
\* modules reachable from the root.
AllImportsIsReachable ==
    dfs # Idle =>
        LET reachable == ReachFrom({dfs.root}) IN
        /\ \A m \in Modules : dfs.recursed[m] <= 1
        /\ \A m \in Modules : dfs.recursed[m] = 1 <=> m \in dfs.s
        /\ dfs.s \subseteq reachable
        /\ Len(dfs.stack) <= NumModules
        /\ dfs.steps <= LoopTurns(reachable)
        /\ dfs.result = None => ENABLED AllImportsStep
        /\ dfs.result # None =>
               /\ dfs.stack = <<>>
               /\ The(dfs.result) = reachable
               /\ The(dfs.result) = _all_imports(dfs.root)

\* _all_imports returned all the modules from a graph in which the root is
\* imported back by another module (a cycle)
AllImportsIsReachableWitness ==
    /\ dfs # Idle
    /\ dfs.result = Some(Modules)
    /\ \E m \in Modules \ {dfs.root} : \E i \in 1..Len(_imports_[m]) :
           _imports_[m][i].module = dfs.root

\* C9: when threads call a module concurrently while it has no handle,
\* register_script is invoked at most once for it.
RegisteredOnceByThreads ==
    \A m \in Modules : register_script_calls[m] <= 1

\* C11: compiling a root (by _compile_ alone or by a first call) sets the
\* compiled flag of every module of its closure, and wherever a module holds
\* a script handle no module of its closure accepts _import_ and the closure
\* and its import lists are those the registered script was assembled from.
RegisteredScriptNeverStale ==
    /\ (last.op = "_compile_" \/ (last.op = "_call_" /\ last.error = "none"))
           => \A m \in _all_imports(last.module) : _compile_called[m]
    /\ \A self \in Modules :
           _registered_script[self] # None =>
               /\ The(_registered_script[self]) = register_script(ScriptSource(self))
               /\ \A m \in _all_imports(self) :
                      /\ _compile_called[m]
                      /\ \A imports \in ImportArguments :
                             ~ ENABLED (Import(m, imports) /\ last'.error # "TypeError")

\* _import_ was refused on a module that was never called or compiled itself
\* and is in the closure of another module that holds a script handle
RegisteredScriptNeverStaleWitness ==
    /\ last.op = "_import_" /\ last.error = "TypeError"
    /\ _registered_script[last.module] = None
    /\ \E self \in Modules \ {last.module} :
           /\ _registered_script[self] # None
           /\ last.module \in _all_imports(self)
           /\ self \notin _all_imports(last.module)

\* C12: an _import_ call that raises ValueError for a name already in use
\* leaves the import list of the module as it was before the call, also when
\* the argument is a sequence and the colliding element is not its first.
FailedImportKeepsList ==
    \A self \in Modules : \A imports \in ImportArguments :
        ~ ENABLED (/\ Import(self, imports)
                   /\ last'.error = "ValueError"
                   /\ _imports_' # _imports_)

====
